---------------------------- MODULE Spec2Model ----------------------------
(***************************************************************************)
(* Multi-OEM cross-reference detector of the dealer-scraper-mvp project    *)
(* (analysis/multi_oem_detector.py): the detector object, its add_dealers  *)
(* and find_multi_oem_contractors operations and the normalisation and     *)
(* name-matching functions they use.  Python strings are modelled as       *)
(* sequences of one-character strings so that the normalisations are       *)
(* computed character by character as the code computes them.  The lead   *)
(* scorer (targeting/coperniq_lead_scorer.py) and the ITC urgency          *)
(* (targeting/srec_itc_filter.py) are modelled as functions called on      *)
(* their own, and as the passes of the filter and of the scorer over one   *)
(* resolved contractor.                                                    *)
(***************************************************************************)
EXTENDS Integers, Sequences, FiniteSets, TLC

(***************************************************************************)
(* Bounds of the model.                                                    *)
(***************************************************************************)
\* longest batch passed to one add_dealers call
MaxBatch == 2
\* most dealer records registered in a detector at one time
MaxRecords == 3
\* largest min_oem_count passed to find_multi_oem_contractors
MaxMinOEM == 3

(***************************************************************************)
(* Characters and string helpers (Python str methods and the re patterns   *)
(* used by the normalisers).                                               *)
(***************************************************************************)
Digits == {"0", "1", "2", "3", "4", "5", "6", "7", "8", "9"}

LowerMap == [A |-> "a", B |-> "b", C |-> "c", D |-> "d", E |-> "e", F |-> "f",
             G |-> "g", H |-> "h", I |-> "i", J |-> "j", K |-> "k", L |-> "l",
             M |-> "m", N |-> "n", O |-> "o", P |-> "p", Q |-> "q", R |-> "r",
             S |-> "s", T |-> "t", U |-> "u", V |-> "v", W |-> "w", X |-> "x",
             Y |-> "y", Z |-> "z"]

LowerLetters == {LowerMap[c] : c \in DOMAIN LowerMap}

\* the characters matched by \w
WordChars == (DOMAIN LowerMap) \cup LowerLetters \cup Digits \cup {"_"}

\* the characters matched by \s
SpaceChars == {" ", "\t", "\n"}

\* str.lower() on one character
LowerChar(c) == IF c \in DOMAIN LowerMap THEN LowerMap[c] ELSE c

\* str.lower()
Lower(s) == [i \in 1..Len(s) |-> LowerChar(s[i])]

\* s[n:] for n >= 0
Drop(s, n) == SubSeq(s, n + 1, Len(s))

\* str.startswith
StartsWith(s, p) == Len(p) <= Len(s) /\ SubSeq(s, 1, Len(p)) = p

\* the `in` operator on strings: p is a substring of s
Contains(s, p) == \E i \in 0..(Len(s) - Len(p)) : SubSeq(s, i + 1, i + Len(p)) = p

\* str.replace(p, ""): every non-overlapping occurrence of p, left to right
RECURSIVE RemoveAll(_, _)
RemoveAll(s, p) ==
    IF Len(s) < Len(p) THEN s
    ELSE IF StartsWith(s, p) THEN RemoveAll(Drop(s, Len(p)), p)
    ELSE <<s[1]>> \o RemoveAll(Tail(s), p)

\* str.split(sep) for a one-character separator: empty parts are kept
RECURSIVE SplitChar(_, _)
SplitChar(s, sep) ==
    IF \A i \in 1..Len(s) : s[i] # sep THEN <<s>>
    ELSE LET i == CHOOSE j \in 1..Len(s) :
                     s[j] = sep /\ \A k \in 1..(j - 1) : s[k] # sep
         IN  <<SubSeq(s, 1, i - 1)>> \o SplitChar(Drop(s, i), sep)

\* str.split() without argument: split at runs of whitespace, no empty parts
SplitSpace(s) ==
    LET spaced == [i \in 1..Len(s) |-> IF s[i] \in SpaceChars THEN " " ELSE s[i]]
        IsPart(p) == p # <<>>
    IN  SelectSeq(SplitChar(spaced, " "), IsPart)

\* sep.join(parts)
RECURSIVE Join(_, _)
Join(parts, sep) ==
    IF parts = <<>> THEN <<>>
    ELSE IF Len(parts) = 1 THEN parts[1]
    ELSE parts[1] \o sep \o Join(Tail(parts), sep)

\* parts[-n:]
LastN(parts, n) ==
    IF Len(parts) <= n THEN parts ELSE SubSeq(parts, Len(parts) - n + 1, Len(parts))

\* the elements of a sequence
Range(s) == {s[i] : i \in 1..Len(s)}

(***************************************************************************)
(* normalize_phone, normalize_domain, fuzzy_name_match                     *)
(***************************************************************************)
\* variant: a leading 1 is dropped whatever the number of digits
normalize_phone_AnyLength(phone) ==
    IF phone = <<>> THEN <<>>
    ELSE LET IsDigit(c) == c \in Digits
             digits == SelectSeq(phone, IsDigit)
         IN  IF StartsWith(digits, <<"1">>) THEN Drop(digits, 1) ELSE digits

normalize_phone(phone) ==
    IF phone = <<>> THEN <<>>
    ELSE LET IsDigit(c) == c \in Digits
             digits == SelectSeq(phone, IsDigit)
         IN  IF StartsWith(digits, <<"1">>) /\ Len(digits) = 11
             THEN Drop(digits, 1)
             ELSE digits

\* labels that make the code keep three parts of the domain
SecondLevelLabels == {<<"c", "o">>, <<"c", "o", "m">>, <<"o", "r", "g">>, <<"n", "e", "t">>}

normalize_domain(domain) ==
    IF domain = <<>> THEN <<>>
    ELSE LET d == RemoveAll(Lower(domain), <<"w", "w", "w", ".">>)
             parts == SplitChar(d, ".")
             n == Len(parts)
         IN  IF n >= 3 /\ parts[n - 1] \in SecondLevelLabels
             THEN Join(LastN(parts, 3), <<".">>)
             ELSE IF n >= 2
             THEN Join(LastN(parts, 2), <<".">>)
             ELSE d

\* legal suffixes removed from company names
NameSuffixes == {<<"l", "l", "c">>, <<"i", "n", "c">>, <<"i", "n", "c", "o", "r", "p", "o", "r", "a", "t", "e", "d">>, <<"c", "o", "r", "p">>, <<"c", "o", "r", "p", "o", "r", "a", "t", "i", "o", "n">>,
                 <<"l", "t", "d">>, <<"l", "i", "m", "i", "t", "e", "d">>, <<"c", "o">>}

\* the inner normalize_name of fuzzy_name_match
normalize_name(name) ==
    LET KeepChar(c) == c \in WordChars \cup SpaceChars
        NotSuffix(tok) == tok \notin NameSuffixes
        nopunct == SelectSeq(Lower(name), KeepChar)
    IN  Join(SelectSeq(SplitSpace(nopunct), NotSuffix), <<" ">>)

\* default threshold of fuzzy_name_match, in hundredths
DefaultThreshold == 85

\* variant: the tokens compared position by position, so that their order
\* counts
levenshtein_ratio_Ordered(s1, s2) ==
    LET tokens1 == SplitSpace(s1)
        tokens2 == SplitSpace(s2)
        shorter == IF Len(tokens1) < Len(tokens2) THEN Len(tokens1) ELSE Len(tokens2)
        longer == IF Len(tokens1) < Len(tokens2) THEN Len(tokens2) ELSE Len(tokens1)
    IN  IF Len(s1) = 0 \/ Len(s2) = 0 THEN <<0, 1>>
        ELSE <<Cardinality({i \in 1..shorter : tokens1[i] = tokens2[i]}), longer>>

\* the inner levenshtein_ratio of fuzzy_name_match (token-set Jaccard), as the
\* pair <<intersection, union>>; <<0, 1>> stands for 0.0
levenshtein_ratio(s1, s2) ==
    LET tokens1 == Range(SplitSpace(s1))
        tokens2 == Range(SplitSpace(s2))
    IN  IF Len(s1) = 0 \/ Len(s2) = 0 THEN <<0, 1>>
        ELSE IF tokens1 = {} \/ tokens2 = {} THEN <<0, 1>>
        ELSE <<Cardinality(tokens1 \cap tokens2), Cardinality(tokens1 \cup tokens2)>>

\* fuzzy_name_match(name1, name2, threshold): [match, score] with the score in
\* hundredths (rounded down)
fuzzy_name_match(name1, name2, threshold) ==
    IF name1 = <<>> \/ name2 = <<>> THEN [match |-> FALSE, score |-> 0]
    ELSE LET norm1 == normalize_name(name1)
             norm2 == normalize_name(name2)
             ratio == levenshtein_ratio(norm1, norm2)
         IN  IF norm1 = norm2 THEN [match |-> TRUE, score |-> 100]
             ELSE IF Contains(norm2, norm1) \/ Contains(norm1, norm2)
             THEN [match |-> TRUE, score |-> 90]
             ELSE [match |-> ratio[1] * 100 >= threshold * ratio[2],
                   score |-> (ratio[1] * 100) \div ratio[2]]

(***************************************************************************)
(* Dealer records: the StandardizedDealer objects the scrapers produce.    *)
(* rating is in tenths of a star.                                          *)
(***************************************************************************)
Dealers == <<
    [name |-> <<"A", "B", "C", " ", "E", "l", "e", "c", "t", "r", "i", "c">>, phone |-> <<"(", "5", "5", "5", ")", " ", "1", "2", "3", "-", "4", "5", "6", "7">>,
     domain |-> <<"w", "w", "w", ".", "a", "b", "c", "e", "l", "e", "c", "t", "r", "i", "c", ".", "c", "o", "m">>, website |-> <<"h", "t", "t", "p", "s", ":", "/", "/", "w", "w", "w", ".", "a", "b", "c", "e", "l", "e", "c", "t", "r", "i", "c", ".", "c", "o", "m">>,
     address_full |-> <<"1", "2", " ", "M", "a", "i", "n", " ", "S", "t", ",", " ", "A", "u", "s", "t", "i", "n", ",", " ", "T", "X">>, rating |-> 48, review_count |-> 10],
    [name |-> <<"A", "B", "C", " ", "E", "l", "e", "c", "t", "r", "i", "c", " ", "L", "L", "C">>, phone |-> <<"+", "1", " ", "5", "5", "5", ".", "1", "2", "3", ".", "4", "5", "6", "7">>,
     domain |-> <<>>, website |-> <<>>,
     address_full |-> <<"1", "2", " ", "M", "a", "i", "n", " ", "S", "t">>, rating |-> 45, review_count |-> 10],
    [name |-> <<"A", "b", "c", " ", "E", "l", "e", "c", "t", "r", "i", "c", ",", " ", "I", "n", "c", ".">>, phone |-> <<"5", "5", "5", "1", "2", "3", "4", "5", "6", "7">>,
     domain |-> <<"a", "b", "c", "s", "o", "l", "a", "r", ".", "c", "o", "m">>, website |-> <<"h", "t", "t", "p", ":", "/", "/", "a", "b", "c", "s", "o", "l", "a", "r", ".", "c", "o", "m">>,
     address_full |-> <<>>, rating |-> 50, review_count |-> 3],
    [name |-> <<"Z", "e", "d", " ", "S", "o", "l", "a", "r">>, phone |-> <<"5", "5", "5", "-", "1", "2", "3", "-", "4", "5", "6", "7">>,
     domain |-> <<"s", "h", "o", "p", ".", "a", "b", "c", "e", "l", "e", "c", "t", "r", "i", "c", ".", "c", "o", "m">>, website |-> <<"h", "t", "t", "p", "s", ":", "/", "/", "s", "h", "o", "p", ".", "a", "b", "c", "e", "l", "e", "c", "t", "r", "i", "c", ".", "c", "o", "m", "/", "g", "o">>,
     address_full |-> <<"A", "u", "s", "t", "i", "n", ",", " ", "T", "X">>, rating |-> 40, review_count |-> 7],
    [name |-> <<"A", "B", "C", " ", "E", "l", "e", "c", "t", "r", "i", "c", " ", "C", "o">>, phone |-> <<"+", "4", "4", " ", "2", "0", " ", "7", "9", "4", "6", " ", "0", "9", "5", "8">>,
     domain |-> <<"A", "B", "C", "e", "l", "e", "c", "t", "r", "i", "c", ".", "c", "o", "m">>, website |-> <<"h", "t", "t", "p", "s", ":", "/", "/", "A", "B", "C", "e", "l", "e", "c", "t", "r", "i", "c", ".", "c", "o", "m">>,
     address_full |-> <<"1", "2", " ", "M", "a", "i", "n", " ", "S", "t", "r", "e", "e", "t", ",", " ", "A", "u", "s", "t", "i", "n", ",", " ", "T", "X", " ", "7", "8", "7", "0", "1">>, rating |-> 45, review_count |-> 12],
    [name |-> <<"E", "l", "e", "c", "t", "r", "i", "c", " ", "A", "B", "C">>, phone |-> <<>>,
     domain |-> <<"a", "b", "c", "e", "l", "e", "c", "t", "r", "i", "c", ".", "c", "o", "m">>, website |-> <<"h", "t", "t", "p", ":", "/", "/", "a", "b", "c", "e", "l", "e", "c", "t", "r", "i", "c", ".", "c", "o", "m", "/">>,
     address_full |-> <<>>, rating |-> 30, review_count |-> 0],
    [name |-> <<"S", "o", "l", "o", " ", "P", "o", "w", "e", "r">>, phone |-> <<>>,
     domain |-> <<>>, website |-> <<>>,
     address_full |-> <<>>, rating |-> 0, review_count |-> 0]
>>

DealerIds == 1..Len(Dealers)

\* the OEM labels, in the order in which the callers register them
OEMOrder == <<"Generac", "Tesla", "Enphase">>

OEMs == {OEMOrder[i] : i \in 1..Len(OEMOrder)}


\* min_oem_count values passed by callers (the default is 2)
MinCounts == 1..MaxMinOEM

\* every list of at most n dealer records
BatchesUpTo(n) == UNION {[1..k -> DealerIds] : k \in 0..n}

\* normalize_phone(d.phone) of the dealer records 1..n, computed once
RECURSIVE PhoneNormUpTo(_)
PhoneNormUpTo(n) ==
    IF n = 0 THEN <<>>
    ELSE Append(PhoneNormUpTo(n - 1), normalize_phone(Dealers[n].phone))

PhoneNorm == PhoneNormUpTo(Len(Dealers))

\* normalize_domain(d.domain) of the dealer records 1..n, computed once
RECURSIVE DomainNormUpTo(_)
DomainNormUpTo(n) ==
    IF n = 0 THEN <<>>
    ELSE Append(DomainNormUpTo(n - 1), normalize_domain(Dealers[n].domain))

DomainNorm == DomainNormUpTo(Len(Dealers))

\* fuzzy_name_match(p.name, d.name)[0] with the default threshold, for the
\* dealer records d in 1..n, computed once
RECURSIVE NameMatchRow(_, _)
NameMatchRow(p, n) ==
    IF n = 0 THEN <<>>
    ELSE Append(NameMatchRow(p, n - 1),
                fuzzy_name_match(Dealers[p].name, Dealers[n].name, DefaultThreshold).match)

RECURSIVE NameMatchRows(_)
NameMatchRows(n) ==
    IF n = 0 THEN <<>>
    ELSE Append(NameMatchRows(n - 1), NameMatchRow(n, Len(Dealers)))

NameMatches == NameMatchRows(Len(Dealers))

(***************************************************************************)
(* State of a MultiOEMDetector.                                            *)
(*   dealers_by_oem    the dict OEM label -> batch, as the sequence of its *)
(*                     items in insertion order; a batch is a list of      *)
(*                     dealer records (indices into Dealers)               *)
(*   multi_oem_matches the list stored (and returned) by the last          *)
(*                     find_multi_oem_contractors call                     *)
(*   last_find         the min_oem_count of the last                       *)
(*                     find_multi_oem_contractors call on this detector,   *)
(*                     0 before the first one                              *)
(*   repeated          TRUE iff the last two calls were                    *)
(*                     find_multi_oem_contractors with the same            *)
(*                     min_oem_count                                       *)
(* The functions and methods that are called on their own are followed     *)
(* through one call each:                                                  *)
(*   call              the function called and its arguments               *)
(*   outcome           whether the call is over and, when it is, whether   *)
(*                     it raised and the value it returned                 *)
(* Where a detector is followed through add_dealers calls that may name a  *)
(* label again:                                                            *)
(*   add_calls         the add_dealers calls made on the detector so far,  *)
(*                     in order                                            *)
(* Where one resolved contractor is followed through SRECITCFilter and     *)
(* CoperniqLeadScorer:                                                     *)
(*   contractor        the MultiOEMMatch object and the fields of its      *)
(*                     primary dealer that the two classes read or write   *)
(*   scores            the CoperniqScore objects created for it, in order  *)
(***************************************************************************)
VARIABLES dealers_by_oem, multi_oem_matches, last_find, repeated, call, outcome,
          add_calls, contractor, scores

vars == <<dealers_by_oem, multi_oem_matches, last_find, repeated, call, outcome,
          add_calls, contractor, scores>>

\* no call is followed
NoCall == [fn |-> "none"]

\* the call has not returned yet
Pending == [done |-> FALSE]

\* no resolved contractor is followed through the filter and the scorer
NoContractor == [present |-> FALSE]

\* MultiOEMDetector.__init__
Init ==
    /\ dealers_by_oem = <<>>
    /\ multi_oem_matches = <<>>
    /\ last_find = 0
    /\ repeated = FALSE
    /\ call = NoCall
    /\ outcome = Pending
    /\ add_calls = <<>>
    /\ contractor = NoContractor
    /\ scores = <<>>

\* the labels registered so far
RegisteredOEMs(dbo) == {dbo[i].oem : i \in 1..Len(dbo)}

RECURSIVE TotalRecords(_)
TotalRecords(dbo) ==
    IF dbo = <<>> THEN 0 ELSE Len(Head(dbo).dealers) + TotalRecords(Tail(dbo))

\* variant: the batch is added to the batch already registered under the
\* label (setdefault(oem_name, []).extend(dealers))
DictAssign_Extend(dbo, oem_name, dealers) ==
    IF oem_name \in RegisteredOEMs(dbo)
    THEN [i \in 1..Len(dbo) |->
             IF dbo[i].oem = oem_name
             THEN [oem |-> oem_name, dealers |-> dbo[i].dealers \o dealers]
             ELSE dbo[i]]
    ELSE Append(dbo, [oem |-> oem_name, dealers |-> dealers])

\* self.dealers_by_oem[oem_name] = dealers: a new key goes to the end of the
\* dict, an existing key keeps its place and gets the new batch
DictAssign(dbo, oem_name, dealers) ==
    IF oem_name \in RegisteredOEMs(dbo)
    THEN [i \in 1..Len(dbo) |->
             IF dbo[i].oem = oem_name
             THEN [oem |-> oem_name, dealers |-> dealers]
             ELSE dbo[i]]
    ELSE Append(dbo, [oem |-> oem_name, dealers |-> dealers])

\* the longest batch the bounds leave room for
Room(dbo) ==
    IF MaxRecords - TotalRecords(dbo) < MaxBatch
    THEN MaxRecords - TotalRecords(dbo)
    ELSE MaxBatch

\* add_dealers(dealers, oem_name).  As at every call site of the repository
\* (class docstring, test_multi_oem_detection.py, run_post_scrape_pipeline.py)
\* the batches are registered before the detector is asked to resolve, one
\* call per label, and the labels come in one fixed order (the code never
\* looks at the label itself).
AddDealers(dealers, oem_name) ==
    /\ last_find = 0
    /\ Len(dealers_by_oem) < Len(OEMOrder)
    /\ oem_name = OEMOrder[Len(dealers_by_oem) + 1]
    /\ Len(dealers) <= Room(dealers_by_oem)
    /\ dealers_by_oem' = DictAssign(dealers_by_oem, oem_name, dealers)
    /\ UNCHANGED <<multi_oem_matches, last_find, repeated, call, outcome,
                   add_calls, contractor, scores>>

(***************************************************************************)
(* find_multi_oem_contractors.  An entry is the pair (oem_name, dealer) of *)
(* the indexes; the dealer object is identified by its batch and position. *)
(***************************************************************************)
EntriesOf(item) ==
    [i \in 1..Len(item.dealers) |->
        [oem |-> item.oem, idx |-> i, dealer |-> item.dealers[i]]]

\* the (oem_name, dealer) pairs in the order of the two nested loops
RECURSIVE AllEntries(_)
AllEntries(dbo) ==
    IF dbo = <<>> THEN <<>> ELSE EntriesOf(Head(dbo)) \o AllEntries(Tail(dbo))

PhoneKey(e) == PhoneNorm[e.dealer]

DomainKey(e) == DomainNorm[e.dealer]

\* the positions of a sequence, in order
Positions(s) == [i \in 1..Len(s) |-> i]

\* a defaultdict(list) filled in entry order, as the sequence of its items;
\* keys[i] is the key computed for entries[i]: keys come in order of first
\* insertion, and an entry with an empty key is not indexed
BuildIndex(entries, keys) ==
    LET IsFirst(i) == /\ keys[i] # <<>>
                      /\ \A j \in 1..(i - 1) : keys[j] # keys[i]
        firsts == SelectSeq(Positions(entries), IsFirst)
    IN  [k \in 1..Len(firsts) |->
            LET HasKey(i) == keys[i] = keys[firsts[k]]
                members == SelectSeq(Positions(entries), HasKey)
            IN  [key |-> keys[firsts[k]],
                 entries |-> [n \in 1..Len(members) |-> entries[members[n]]]]]

phone_index(dbo) ==
    LET entries == AllEntries(dbo)
    IN  BuildIndex(entries, [i \in 1..Len(entries) |-> PhoneKey(entries[i])])

domain_index(dbo) ==
    LET entries == AllEntries(dbo)
    IN  BuildIndex(entries, [i \in 1..Len(entries) |-> DomainKey(entries[i])])

\* variant: oem_sources taken from the first entry only
OEMSources_FirstOnly(entries) == {entries[1].oem}

\* set(oem_entries.keys())
OEMSources(entries) == {entries[i].oem : i \in 1..Len(entries)}

\* variant: the distinct-OEM check left out (only len(entries) is compared)
TooFewOEMs_Unchecked(entries, min_oem_count) == FALSE

\* "Skip if all from same OEM": len(oem_entries) < min_oem_count
TooFewOEMs(entries, min_oem_count) ==
    Cardinality(OEMSources(entries)) < min_oem_count

\* the sort key (d.rating, d.review_count), compared as Python tuples
RatingKeyLess(a, b) ==
    \/ Dealers[a.dealer].rating < Dealers[b.dealer].rating
    \/ /\ Dealers[a.dealer].rating = Dealers[b.dealer].rating
       /\ Dealers[a.dealer].review_count < Dealers[b.dealer].review_count

\* max(all_dealers, key=...): the first of the maximal elements
PrimaryOf(all_dealers) ==
    LET i == CHOOSE k \in 1..Len(all_dealers) :
                 /\ \A j \in 1..Len(all_dealers) : ~RatingKeyLess(all_dealers[k], all_dealers[j])
                 /\ \A j \in 1..(k - 1) : RatingKeyLess(all_dealers[j], all_dealers[k])
    IN  all_dealers[i]

\* get_best_contact_info before the first record is looked at
NoContactInfo == [phone |-> <<>>, website |-> <<>>, domain |-> <<>>, address_full |-> <<>>]

\* variant: one iteration that prefers the longer domain
BestContactStep_LongestDomain(best, d) ==
    LET better_phone == Len(d.phone) > Len(best.phone)
        better_domain == d.domain # <<>> /\ (best.domain = <<>> \/ Len(d.domain) > Len(best.domain))
        better_address == Len(d.address_full) > Len(best.address_full)
    IN  [phone |-> IF better_phone THEN d.phone ELSE best.phone,
         website |-> IF better_domain THEN d.website ELSE best.website,
         domain |-> IF better_domain THEN d.domain ELSE best.domain,
         address_full |-> IF better_address THEN d.address_full ELSE best.address_full]

\* one iteration of the loop of get_best_contact_info, for the dealer d
BestContactStep(best, d) ==
    LET better_phone == Len(d.phone) > Len(best.phone)
        better_domain == d.domain # <<>> /\ (best.domain = <<>> \/ Len(d.domain) < Len(best.domain))
        better_address == Len(d.address_full) > Len(best.address_full)
    IN  [phone |-> IF better_phone THEN d.phone ELSE best.phone,
         website |-> IF better_domain THEN d.website ELSE best.website,
         domain |-> IF better_domain THEN d.domain ELSE best.domain,
         address_full |-> IF better_address THEN d.address_full ELSE best.address_full]

RECURSIVE BestContactFrom(_, _)
BestContactFrom(dealer_records, best) ==
    IF dealer_records = <<>> THEN best
    ELSE BestContactFrom(Tail(dealer_records),
                         BestContactStep(best, Dealers[Head(dealer_records).dealer]))

\* MultiOEMMatch.get_best_contact_info
get_best_contact_info(dealer_records) == BestContactFrom(dealer_records, NoContactInfo)

\* variant: the former policy, 50 points for two OEMs
calculate_multi_oem_score_Former(oem_sources) ==
    LET oem_count == Cardinality(oem_sources)
    IN  IF oem_count >= 3 THEN 100
        ELSE IF oem_count = 2 THEN 50
        ELSE IF oem_count = 1 THEN 20
        ELSE 0

\* MultiOEMMatch.calculate_multi_oem_score
calculate_multi_oem_score(oem_sources) ==
    LET oem_count == Cardinality(oem_sources)
    IN  IF oem_count >= 3 THEN 100
        ELSE IF oem_count = 2 THEN 60
        ELSE IF oem_count = 1 THEN 20
        ELSE 0

\* variant: the domain signal without the `if d.domain` filter
PhoneSignals_NoDomainFilter(primary, all_dealers) ==
    LET domain_norm == DomainNorm[primary.dealer]
        domain_ok == /\ domain_norm # <<>>
                     /\ \A i \in 1..Len(all_dealers) :
                            DomainNorm[all_dealers[i].dealer] = domain_norm
        name_matches == \A i \in 1..Len(all_dealers) :
                            NameMatches[primary.dealer][all_dealers[i].dealer]
    IN  <<"phone">> \o (IF domain_ok THEN <<"domain">> ELSE <<>>)
                    \o (IF name_matches THEN <<"name">> ELSE <<>>)

\* the signals of a phone-based group
PhoneSignals(primary, all_dealers) ==
    LET domain_norm == DomainNorm[primary.dealer]
        domain_ok == /\ domain_norm # <<>>
                     /\ \A i \in 1..Len(all_dealers) :
                            Dealers[all_dealers[i].dealer].domain # <<>>
                                => DomainNorm[all_dealers[i].dealer] = domain_norm
        name_matches == \A i \in 1..Len(all_dealers) :
                            NameMatches[primary.dealer][all_dealers[i].dealer]
    IN  <<"phone">> \o (IF domain_ok THEN <<"domain">> ELSE <<>>)
                    \o (IF name_matches THEN <<"name">> ELSE <<>>)

\* variant: the scale of the module docstring (80, 90, 100)
PhoneConfidence_Docstring(match_signals) ==
    LET confidence == Len(match_signals) * 10 + 70
    IN  IF confidence < 100 THEN confidence ELSE 100

\* confidence of a phone-based group
PhoneConfidence(match_signals) ==
    LET confidence == Len(match_signals) * 30 + 10
    IN  IF confidence < 100 THEN confidence ELSE 100

\* confidence of a domain-only group
DomainOnlyConfidence == 60

\* the MultiOEMMatch built for one phone number
PhoneMatch(entries) ==
    LET primary == PrimaryOf(entries)
        match_signals == PhoneSignals(primary, entries)
    IN  [primary_dealer |-> primary,
         oem_sources |-> OEMSources(entries),
         dealer_records |-> entries,
         match_confidence |-> PhoneConfidence(match_signals),
         match_signals |-> match_signals,
         multi_oem_score |-> calculate_multi_oem_score(OEMSources(entries))]

\* the MultiOEMMatch built for one domain
DomainMatch(entries) ==
    [primary_dealer |-> PrimaryOf(entries),
     oem_sources |-> OEMSources(entries),
     dealer_records |-> entries,
     match_confidence |-> DomainOnlyConfidence,
     match_signals |-> <<"domain">>,
     multi_oem_score |-> calculate_multi_oem_score(OEMSources(entries))]

\* one iteration of the loop over phone_index
PhoneStep(item, min_oem_count, acc) ==
    IF Len(item.entries) < min_oem_count THEN acc
    ELSE IF TooFewOEMs(item.entries, min_oem_count) THEN acc
    ELSE [matches |-> Append(acc.matches, PhoneMatch(item.entries)),
          processed_combinations |->
              acc.processed_combinations \cup
                  {<<item.key, DomainNorm[PrimaryOf(item.entries).dealer]>>}]

RECURSIVE PhonePass(_, _, _)
PhonePass(index, min_oem_count, acc) ==
    IF index = <<>> THEN acc
    ELSE PhonePass(Tail(index), min_oem_count, PhoneStep(Head(index), min_oem_count, acc))

\* "Check if already processed": the phone of the first entry with this domain
AlreadyProcessed(item, processed_combinations) ==
    <<PhoneNorm[item.entries[1].dealer], item.key>> \in processed_combinations

\* variant: the size test of the domain loop off by one (<= for <)
DomainStep_OffByOne(item, min_oem_count, acc) ==
    IF Len(item.entries) <= min_oem_count THEN acc
    ELSE IF AlreadyProcessed(item, acc.processed_combinations) THEN acc
    ELSE IF TooFewOEMs(item.entries, min_oem_count) THEN acc
    ELSE [acc EXCEPT !.matches = Append(@, DomainMatch(item.entries))]

\* one iteration of the loop over domain_index
DomainStep(item, min_oem_count, acc) ==
    IF Len(item.entries) < min_oem_count THEN acc
    ELSE IF AlreadyProcessed(item, acc.processed_combinations) THEN acc
    ELSE IF TooFewOEMs(item.entries, min_oem_count) THEN acc
    ELSE [acc EXCEPT !.matches = Append(@, DomainMatch(item.entries))]

RECURSIVE DomainPass(_, _, _)
DomainPass(index, min_oem_count, acc) ==
    IF index = <<>> THEN acc
    ELSE DomainPass(Tail(index), min_oem_count, DomainStep(Head(index), min_oem_count, acc))

\* variant: sorted by multi_oem_score alone
SortKeyLess_ScoreOnly(a, b) == a.multi_oem_score < b.multi_oem_score

\* the sort key (m.multi_oem_score, m.match_confidence), compared as tuples
SortKeyLess(a, b) ==
    \/ a.multi_oem_score < b.multi_oem_score
    \/ /\ a.multi_oem_score = b.multi_oem_score
       /\ a.match_confidence < b.match_confidence

\* matches.sort(key=..., reverse=True): descending and stable
RECURSIVE SortMatches(_)
SortMatches(matches) ==
    IF matches = <<>> THEN <<>>
    ELSE LET n == Len(matches)
             last == matches[n]
             sorted == SortMatches(SubSeq(matches, 1, n - 1))
             NotLess(m) == ~SortKeyLess(m, last)
             before == Len(SelectSeq(sorted, NotLess))
         IN  SubSeq(sorted, 1, before) \o <<last>> \o SubSeq(sorted, before + 1, n - 1)

\* variant: `return matches or None`, None in place of an empty list
Resolve_NoneWhenEmpty(dbo, min_oem_count) ==
    LET start == [matches |-> <<>>, processed_combinations |-> {}]
        by_phone == PhonePass(phone_index(dbo), min_oem_count, start)
        by_domain == DomainPass(domain_index(dbo), min_oem_count, by_phone)
    IN  IF by_domain.matches = <<>> THEN [none |-> TRUE]
        ELSE SortMatches(by_domain.matches)

\* the list find_multi_oem_contractors builds from the registered batches
Resolve(dbo, min_oem_count) ==
    LET start == [matches |-> <<>>, processed_combinations |-> {}]
        by_phone == PhonePass(phone_index(dbo), min_oem_count, start)
        by_domain == DomainPass(domain_index(dbo), min_oem_count, by_phone)
    IN  SortMatches(by_domain.matches)

\* variant: the new matches are added to self.multi_oem_matches instead of
\* replacing it
FindMultiOEMContractors_Accumulating(min_oem_count) ==
    /\ last_find \in {0, min_oem_count}
    /\ multi_oem_matches' =
           SortMatches(multi_oem_matches \o Resolve(dealers_by_oem, min_oem_count))
    /\ last_find' = min_oem_count
    /\ repeated' = (last_find = min_oem_count)
    /\ UNCHANGED <<dealers_by_oem, call, outcome, add_calls, contractor, scores>>

\* find_multi_oem_contractors(min_oem_count).  The callers resolve once per
\* detector; a further call is modelled when it repeats the previous one.
FindMultiOEMContractors(min_oem_count) ==
    /\ last_find \in {0, min_oem_count}
    /\ multi_oem_matches' = Resolve(dealers_by_oem, min_oem_count)
    /\ last_find' = min_oem_count
    /\ repeated' = (last_find = min_oem_count)
    /\ UNCHANGED <<dealers_by_oem, call, outcome, add_calls, contractor, scores>>

Next ==
    \/ \E oem_name \in OEMs, dealers \in BatchesUpTo(Room(dealers_by_oem)) :
           AddDealers(dealers, oem_name)
    \/ \E min_oem_count \in MinCounts : FindMultiOEMContractors(min_oem_count)

Spec == Init /\ [][Next]_vars


(***************************************************************************)
(* The detector followed through add_dealers calls that are free to name   *)
(* any label, also one registered before (the method itself has no guard). *)
(***************************************************************************)
\* the number of add_dealers calls followed
MaxAddCalls == 3

\* the batches passed to these calls: an empty batch, a batch of one record
\* and a batch of two records that share no record
ReplacementBatches == {<<>>, <<1>>, <<2, 6>>}

\* add_dealers(dealers, oem_name), under any label
AddDealersAnyLabel(dealers, oem_name) ==
    /\ last_find = 0
    /\ Len(add_calls) < MaxAddCalls
    /\ dealers_by_oem' = DictAssign(dealers_by_oem, oem_name, dealers)
    /\ add_calls' = Append(add_calls, [oem |-> oem_name, dealers |-> dealers])
    /\ UNCHANGED <<multi_oem_matches, last_find, repeated, call, outcome,
                   contractor, scores>>

RegisterNext ==
    \/ \E oem_name \in OEMs, dealers \in ReplacementBatches :
           AddDealersAnyLabel(dealers, oem_name)
    \/ \E min_oem_count \in MinCounts : FindMultiOEMContractors(min_oem_count)

RegisterSpec == Init /\ [][RegisterNext]_vars

(***************************************************************************)
(* Properties.  After a find_multi_oem_contractors call (last_find >= 1)   *)
(* multi_oem_matches is the list that call returned for the registered     *)
(* batches.                                                                *)
(***************************************************************************)
Resolved == last_find >= 1

Groups == 1..Len(multi_oem_matches)

\* the dealer objects of a group
RecordsOf(m) == {<<m.dealer_records[i].oem, m.dealer_records[i].idx>> :
                    i \in 1..Len(m.dealer_records)}

\* the OEMs whose batches contributed a record to a group
OEMsOfRecords(m) == {m.dealer_records[i].oem : i \in 1..Len(m.dealer_records)}

PhoneBased(m) == m.match_signals[1] = "phone"

DomainBased(m) == m.match_signals = <<"domain">>

\* the registered dealer records
Registered == AllEntries(dealers_by_oem)

RegisteredIdx == 1..Len(Registered)

\* C1: every group returned by find_multi_oem_contractors(min_oem_count),
\* phone-based or domain-based, has at least min_oem_count distinct OEM names
\* in oem_sources.
C1_OEMCountAtLeastMin ==
    Resolved =>
        \A g \in Groups :
            Cardinality(multi_oem_matches[g].oem_sources) >= last_find

\* a call with min_oem_count = 2 returned a phone-based and a domain-based group
C1_Witness ==
    /\ last_find = 2
    /\ \E g \in Groups : PhoneBased(multi_oem_matches[g])
    /\ \E g \in Groups : DomainBased(multi_oem_matches[g])

\* C2: no dealer record appears in the dealer_records of two different groups
\* of one returned list.
C2_RecordInAtMostOneGroup ==
    Resolved =>
        \A g, h \in Groups :
            g # h => RecordsOf(multi_oem_matches[g]) \cap RecordsOf(multi_oem_matches[h]) = {}

\* C3 as stated: within every group no OEM contributes more than one dealer
\* record, i.e. the number of dealer_records equals the number of oem_sources.
C3_OneRecordPerOEM ==
    Resolved =>
        \A g \in Groups :
            Len(multi_oem_matches[g].dealer_records)
                = Cardinality(multi_oem_matches[g].oem_sources)

\* no registered batch holds two records with the same normalized phone or
\* the same normalized domain
NoSharedKeyWithinBatch ==
    \A i, j \in RegisteredIdx :
        (i # j /\ Registered[i].oem = Registered[j].oem) =>
            /\ PhoneKey(Registered[i]) = <<>> \/ PhoneKey(Registered[i]) # PhoneKey(Registered[j])
            /\ DomainKey(Registered[i]) = <<>> \/ DomainKey(Registered[i]) # DomainKey(Registered[j])

\* C3 (amended): in every group oem_sources is exactly the set of OEMs of its
\* dealer records, so there are at least as many dealer_records as
\* oem_sources; the two numbers are equal when no OEM batch holds two
\* records with the same normalized phone or domain.
C3_RecordsCoverOEMs ==
    Resolved =>
        \A g \in Groups :
            LET m == multi_oem_matches[g]
            IN  /\ m.oem_sources = OEMsOfRecords(m)
                /\ Cardinality(RecordsOf(m)) = Len(m.dealer_records)
                /\ Len(m.dealer_records) >= Cardinality(m.oem_sources)
                /\ NoSharedKeyWithinBatch =>
                       Len(m.dealer_records) = Cardinality(m.oem_sources)

\* a returned group holds two records of one OEM
C3_Witness ==
    /\ Resolved
    /\ \E g \in Groups :
           Len(multi_oem_matches[g].dealer_records)
               > Cardinality(multi_oem_matches[g].oem_sources)

\* C4: with min_oem_count = 1 there is a group for every distinct normalized
\* phone of the input and, for the records without a phone, for every distinct
\* normalized domain, and every record with a phone or a domain is in at
\* least one returned group.
C4_NothingDroppedAtMinOne ==
    last_find = 1 =>
        \A i \in RegisteredIdx :
            LET e == Registered[i]
            IN  /\ PhoneKey(e) # <<>> =>
                       \E g \in Groups :
                           /\ PhoneBased(multi_oem_matches[g])
                           /\ <<e.oem, e.idx>> \in RecordsOf(multi_oem_matches[g])
                /\ (PhoneKey(e) = <<>> /\ DomainKey(e) # <<>>) =>
                       \E g \in Groups :
                           /\ DomainBased(multi_oem_matches[g])
                           /\ <<e.oem, e.idx>> \in RecordsOf(multi_oem_matches[g])

\* the three OEMs registered one record each, the three phones normalize to
\* the same number and the three names fuzzy-match each other, and
\* find_multi_oem_contractors(min_oem_count=2) was called
C5_Scenario ==
    /\ last_find = 2
    /\ Len(dealers_by_oem) = 3
    /\ \A i \in 1..3 : Len(dealers_by_oem[i].dealers) = 1
    /\ \A i, j \in 1..3 :
           /\ PhoneKey(Registered[i]) # <<>>
           /\ PhoneKey(Registered[i]) = PhoneKey(Registered[j])
           /\ NameMatches[Registered[i].dealer][Registered[j].dealer]

C5_Primary ==
    CHOOSE e \in Range(Registered) :
        /\ \A f \in Range(Registered) : ~RatingKeyLess(e, f)
        /\ \A f \in Range(Registered) :
               (f # e /\ ~RatingKeyLess(f, e)) => \E i, j \in RegisteredIdx :
                   i < j /\ Registered[i] = e /\ Registered[j] = f

\* the primary has a domain and every record with a domain shares its
\* normalized domain
C5_DomainsAgree ==
    /\ DomainKey(C5_Primary) # <<>>
    /\ \A e \in Range(Registered) :
           Dealers[e.dealer].domain # <<>> => DomainKey(e) = DomainKey(C5_Primary)

\* two records share a normalized domain that is not the primary's
C5_OtherDomainShared ==
    \E i, j \in RegisteredIdx :
        /\ i # j
        /\ DomainKey(Registered[i]) # <<>>
        /\ DomainKey(Registered[i]) = DomainKey(Registered[j])
        /\ DomainKey(Registered[i]) # DomainKey(C5_Primary)

C6_Scenario ==
    /\ last_find = 2
    /\ Len(Registered) = 2
    /\ Registered[1].oem # Registered[2].oem
    /\ DomainKey(Registered[1]) # <<>>
    /\ DomainKey(Registered[1]) = DomainKey(Registered[2])
    /\ PhoneKey(Registered[1]) # PhoneKey(Registered[2])

\* C6: in that scenario exactly one group is returned; it contains both
\* records, has match_confidence 60 and match_signals ["domain"].
C6_DomainOnlyMatch ==
    C6_Scenario =>
        /\ Len(multi_oem_matches) = 1
        /\ RecordsOf(multi_oem_matches[1])
               = {<<Registered[i].oem, Registered[i].idx>> : i \in 1..2}
        /\ Len(multi_oem_matches[1].dealer_records) = 2
        /\ multi_oem_matches[1].match_confidence = 60
        /\ multi_oem_matches[1].match_signals = <<"domain">>

\* the scenario was resolved, both records having a phone
C6_Witness ==
    /\ C6_Scenario
    /\ PhoneKey(Registered[1]) # <<>>
    /\ PhoneKey(Registered[2]) # <<>>
    /\ Len(multi_oem_matches) = 1

C8_ScoreStepFunction ==
    Resolved =>
        \A g \in Groups :
            LET m == multi_oem_matches[g]
                n == Cardinality(OEMsOfRecords(m))
            IN  /\ n >= 1
                /\ n = Cardinality(m.oem_sources)
                /\ n = 1 => m.multi_oem_score = 20
                /\ n = 2 => m.multi_oem_score = 60
                /\ n >= 3 => m.multi_oem_score = 100

\* one returned list holds a one-OEM group and a two-OEM group
C8_Witness ==
    /\ Resolved
    /\ \E g, h \in Groups :
           /\ Cardinality(multi_oem_matches[g].oem_sources) = 2
           /\ Cardinality(multi_oem_matches[h].oem_sources) = 1

\* C9: a find_multi_oem_contractors call that repeats the previous call
\* (same min_oem_count, no add_dealers in between) returns the same list and
\* leaves the registered batches unchanged.
C9_RepeatedFindIdentical ==
    [][(last_find >= 1 /\ last_find' = last_find) =>
           /\ multi_oem_matches' = multi_oem_matches
           /\ dealers_by_oem' = dealers_by_oem]_vars

\* a call was repeated and returned at least two groups
C9_Witness ==
    /\ repeated
    /\ Len(multi_oem_matches) >= 2

\* C10: the returned list is in descending order of
\* (multi_oem_score, match_confidence), compared lexicographically.
C10_SortedDescending ==
    Resolved =>
        \A g \in Groups :
            g + 1 \in Groups =>
                LET a == multi_oem_matches[g]
                    b == multi_oem_matches[g + 1]
                IN  \/ a.multi_oem_score > b.multi_oem_score
                    \/ /\ a.multi_oem_score = b.multi_oem_score
                       /\ a.match_confidence >= b.match_confidence

\* a returned list of three groups with two different scores, and two
\* different confidences within one score
C10_Witness ==
    /\ Resolved
    /\ Len(multi_oem_matches) >= 3
    /\ \E g, h \in Groups :
           multi_oem_matches[g].multi_oem_score # multi_oem_matches[h].multi_oem_score
    /\ \E g, h \in Groups :
           /\ multi_oem_matches[g].multi_oem_score = multi_oem_matches[h].multi_oem_score
           /\ multi_oem_matches[g].match_confidence # multi_oem_matches[h].match_confidence

\* a registered record whose phone and domain are both empty
NoContactKeys(e) ==
    /\ Dealers[e.dealer].phone = <<>>
    /\ Dealers[e.dealer].domain = <<>>

\* C12: a dealer record whose phone and domain are both empty appears in no
\* returned group when min_oem_count >= 2, and when min_oem_count = 1 it is
\* returned as its own one-OEM group containing only that record.
C12_KeylessRecordPassthrough ==
    Resolved =>
        \A i \in RegisteredIdx :
            LET e == Registered[i]
            IN  NoContactKeys(e) =>
                    /\ last_find >= 2 =>
                           \A g \in Groups :
                               <<e.oem, e.idx>> \notin RecordsOf(multi_oem_matches[g])
                    /\ last_find = 1 =>
                           \E g \in Groups :
                               /\ RecordsOf(multi_oem_matches[g]) = {<<e.oem, e.idx>>}
                               /\ Cardinality(multi_oem_matches[g].oem_sources) = 1

\* the digits of a record's phone form neither a 10-digit number nor an
\* 11-digit number starting with 1
NotUSPhone(e) ==
    LET IsDigit(c) == c \in Digits
        digits == SelectSeq(Dealers[e.dealer].phone, IsDigit)
    IN  ~ \/ Len(digits) = 10
          \/ Len(digits) = 11 /\ digits[1] = "1"

\* C13: a dealer record whose phone is unparseable or not a US number is
\* never used as a phone join key: no phone-based group joins it with
\* another record.
C13_NonUSPhoneNotJoined ==
    Resolved =>
        \A g \in Groups :
            LET m == multi_oem_matches[g]
            IN  (PhoneBased(m) /\ Len(m.dealer_records) >= 2) =>
                    \A i \in 1..Len(m.dealer_records) : ~NotUSPhone(m.dealer_records[i])

\* C24: find_multi_oem_contractors on a detector with no registered batches,
\* or whose registered batches are all empty lists, returns an empty list
\* for every min_oem_count >= 1.
C24_EmptyInputEmptyResult ==
    (Resolved /\ \A i \in 1..Len(dealers_by_oem) : dealers_by_oem[i].dealers = <<>>)
        => multi_oem_matches = <<>>

\* a detector with three empty batches has been resolved
C24_Witness ==
    /\ Resolved
    /\ Len(dealers_by_oem) = Len(OEMOrder)
    /\ \A i \in 1..Len(dealers_by_oem) : dealers_by_oem[i].dealers = <<>>
    /\ multi_oem_matches = <<>>

\* what the order-insensitive comparisons look at in a group
GroupSummary(m) ==
    [records |-> RecordsOf(m), oem_sources |-> m.oem_sources,
     match_signals |-> m.match_signals, match_confidence |-> m.match_confidence]

Summaries(matches) == {GroupSummary(matches[i]) : i \in 1..Len(matches)}

\* the same add_dealers calls in every other order
Reorderings(dbo) ==
    {[i \in 1..Len(dbo) |-> dbo[p[i]]] : p \in Permutations(1..Len(dbo))}

\* C25: the result of find_multi_oem_contractors does not depend on the
\* order in which the OEM batches were registered: for any two orderings of
\* the same add_dealers calls the returned groups are the same as a set
\* (same record sets, OEM sets, match signals and confidence).
C25_RegistrationOrderIrrelevant ==
    Resolved =>
        \A reordered \in Reorderings(dealers_by_oem) :
            Summaries(Resolve(reordered, last_find)) = Summaries(multi_oem_matches)

\* C26: lowering min_oem_count never loses a cross-OEM match: every group
\* returned for min_oem_count=2 is also returned, with the same records, OEM
\* set, signals and confidence, for min_oem_count=1 on the same input.
C26_MinOneKeepsCrossOEMMatches ==
    (Resolved /\ last_find = 1) =>
        Summaries(Resolve(dealers_by_oem, 2)) \subseteq Summaries(multi_oem_matches)

(***************************************************************************)
(* The functions called on their own.  A behaviour of CallSpec follows one *)
(* call: the initial state holds the function and its arguments, the       *)
(* action of the function computes what it returns.  None of the functions *)
(* below has a raise statement.                                            *)
(***************************************************************************)
\* the call returned v
Returned(v) == [done |-> TRUE, raised |-> FALSE, value |-> v]

\* longest run of leading digits put in front of a phone number
MaxPhonePrefix == 2
\* most digits of the rest of a phone number
MaxPhoneBody == 10

\* the digits a phone number is made of
LocalDigits == <<"5", "5", "5", "1", "2", "3", "4", "5", "6", "7">>

\* the first n digits of the repeated local number
PhoneBody(n) == [i \in 1..n |-> LocalDigits[((i - 1) % Len(LocalDigits)) + 1]]

\* possible country-code and area-code beginnings
PhonePrefixes == UNION {[1..k -> {"1", "5"}] : k \in 0..MaxPhonePrefix}

DigitStrings == {p \o PhoneBody(n) : p \in PhonePrefixes, n \in 0..MaxPhoneBody}

\* what a scraped phone field starts with
PhoneLeads == {<<>>, <<"+">>, <<"(">>, <<"t", "e", "l", ":", " ">>}

\* what separates the groups of digits of a scraped phone field
PhoneSeparators == {<<>>, <<"-">>, <<".">>, <<" ">>, <<")", " ">>}

\* a digit string cut into groups of three
RECURSIVE Chunks(_)
Chunks(digits) ==
    IF Len(digits) <= 3 THEN <<digits>>
    ELSE <<SubSeq(digits, 1, 3)>> \o Chunks(Drop(digits, 3))

\* a digit string written as a scraped phone field
FormatPhone(lead, sep, digits) == lead \o Join(Chunks(digits), sep)

\* the phone numbers of the docstring of normalize_phone and of the
\* specification
ExamplePhones == {<<"(", "5", "5", "5", ")", " ", "5", "5", "5", "-", "5", "5", "5", "5">>,
                  <<"5", "5", "5", ".", "5", "5", "5", ".", "5", "5", "5", "5">>,
                  <<"+", "1", " ", "(", "5", "5", "5", ")", " ", "5", "5", "5", "-", "5", "5", "5", "5">>,
                  <<"+", "1", " ", "(", "5", "5", "5", ")", " ", "1", "2", "3", "-", "4", "5", "6", "7">>,
                  <<"5", "5", "5", ".", "1", "2", "3", ".", "4", "5", "6", "7">>}

PhoneInputs ==
    ExamplePhones \cup
        {FormatPhone(lead, sep, digits) :
            lead \in PhoneLeads, sep \in PhoneSeparators, digits \in DigitStrings}

\* most labels of a domain passed to normalize_domain
MaxLabels == 3

\* the labels the domains are made of
DomainLabels == {<<"w", "w", "w">>,
                 <<"W", "W", "W">>,
                 <<"s", "h", "o", "p">>,
                 <<"E", "x", "a", "m", "p", "l", "e">>,
                 <<"b", "e", "s", "t", "w", "w", "w">>,
                 <<"c", "o">>,
                 <<"c", "o", "m">>,
                 <<"u", "k">>}

\* the domains of the docstring of normalize_domain
ExampleDomains == {<<"w", "w", "w", ".", "e", "x", "a", "m", "p", "l", "e", ".", "c", "o", "m">>,
                   <<"s", "u", "b", "d", "o", "m", "a", "i", "n", ".", "e", "x", "a", "m", "p", "l", "e", ".", "c", "o", "m">>,
                   <<"e", "x", "a", "m", "p", "l", "e", ".", "c", "o", ".", "u", "k">>}

DomainInputs ==
    ExampleDomains \cup
        {Join(labels, <<".">>) :
            labels \in UNION {[1..k -> DomainLabels] : k \in 0..MaxLabels}}

NormalizeDomainCalls == {[fn |-> "normalize_domain", domain |-> d] : d \in DomainInputs}

\* company names passed to fuzzy_name_match
NameInputs == {<<>>,
               <<"A", "B", "C", " ", "E", "l", "e", "c", "t", "r", "i", "c">>,
               <<"A", "B", "C", " ", "E", "l", "e", "c", "t", "r", "i", "c", " ", "L", "L", "C">>,
               <<"A", "b", "c", " ", "E", "l", "e", "c", "t", "r", "i", "c", ",", " ", "I", "n", "c", ".">>,
               <<"E", "l", "e", "c", "t", "r", "i", "c", " ", "A", "B", "C">>,
               <<"Z", "e", "d", " ", "S", "o", "l", "a", "r">>,
               <<"A", "B", "C">>,
               <<"L", "L", "C">>,
               <<"I", "n", "c", ".">>,
               <<"A", "B", "C", " ", "S", "o", "l", "a", "r", " ", "E", "l", "e", "c", "t", "r", "i", "c">>,
               <<"A", ".", "B", ".", "C", ".", " ", "E", "l", "e", "c", "t", "r", "i", "c", " ", "C", "o">>,
               <<"S", "o", "l", "a", "r", " ", " ", "Z", "e", "d", "\t", "C", "o", "r", "p">>,
               <<"E", "l", "e", "c", "t", "r", "i", "c", " ", "A", "B", "C", " ", "S", "o", "l", "a", "r", " ", "P", "o", "w", "e", "r">>}

\* thresholds passed to fuzzy_name_match, in hundredths: the default, other
\* values of (0, 1], and values outside it
ValidThresholds == {50, 60, DefaultThreshold, 100}

InvalidThresholds == {-10, 0, 150}

FuzzyNameMatchCalls ==
    {[fn |-> "fuzzy_name_match", name1 |-> n1, name2 |-> n2, threshold |-> t] :
        n1 \in NameInputs, n2 \in NameInputs, t \in ValidThresholds \cup InvalidThresholds}

\* min_oem_count values below the smallest meaningful one
InvalidMinCounts == {-1, 0}

\* detectors with a Generac and a Tesla batch of at most one record each
SmallDetectors ==
    {<<[oem |-> OEMOrder[1], dealers |-> b1], [oem |-> OEMOrder[2], dealers |-> b2]>> :
        b1 \in BatchesUpTo(1), b2 \in BatchesUpTo(1)}

\* find_multi_oem_contractors called on a detector, as a function of the
\* detector's batches
FindCalls ==
    {[fn |-> "find_multi_oem_contractors", dealers_by_oem |-> dbo, min_oem_count |-> m] :
        dbo \in SmallDetectors, m \in InvalidMinCounts}

(***************************************************************************)
(* CoperniqScore (targeting/coperniq_lead_scorer.py): the points each      *)
(* scoring method of CoperniqLeadScorer can return, and the two bonuses.   *)
(***************************************************************************)
\* score_multi_oem_presence
MultiOEMPoints == {0, 8, 30, 40}

\* score_srec_state
SRECStatePoints == {0, 10, 20}

\* score_commercial_capability
CommercialPoints == {5, 10, 15, 20}

\* score_geographic_value
GeographicPoints == {0, 3, 7, 10}

\* score_itc_urgency
ITCUrgencyPoints == {2, 5, 7, 10}

\* om_bonus: none or the full bonus
OMBonusPoints == {0, 20}

\* mep_r_bonus: none or the full bonus
MEPRBonusPoints == {0, 25}

CalculateTotalCalls ==
    {[fn |-> "calculate_total",
      multi_oem_score |-> a, srec_state_score |-> b, commercial_capability_score |-> c,
      geographic_score |-> d, itc_urgency_score |-> e, om_bonus |-> f, mep_r_bonus |-> g] :
        a \in MultiOEMPoints, b \in SRECStatePoints, c \in CommercialPoints,
        d \in GeographicPoints, e \in ITCUrgencyPoints, f \in OMBonusPoints,
        g \in MEPRBonusPoints}

\* variant: the cut-offs printed by score_contractors (HIGH 80-100, MEDIUM
\* 50-79, LOW below 50)
PriorityTier_Printed(total_score) ==
    IF total_score >= 80 THEN "HIGH"
    ELSE IF total_score >= 50 THEN "MEDIUM"
    ELSE "LOW"

\* the priority tier calculate_total assigns to a total
PriorityTier(total_score) ==
    IF total_score >= 90 THEN "HOT"
    ELSE IF total_score >= 70 THEN "HIGH"
    ELSE IF total_score >= 50 THEN "MEDIUM"
    ELSE "LOW"

\* CoperniqScore.calculate_total: the fields total_score and priority_tier
\* after the call (total_score is also the return value)
calculate_total(score) ==
    LET total_score == score.multi_oem_score + score.srec_state_score
                           + score.commercial_capability_score + score.geographic_score
                           + score.itc_urgency_score + score.om_bonus + score.mep_r_bonus
    IN  [total_score |-> total_score, priority_tier |-> PriorityTier(total_score)]

(***************************************************************************)
(* SRECITCFilter (targeting/srec_itc_filter.py) and the ITC urgency score  *)
(* of CoperniqLeadScorer.  A date is a record [year, month, day]; the      *)
(* difference of two dates is computed from their proleptic Gregorian      *)
(* ordinals as datetime.date does.                                         *)
(***************************************************************************)
\* str.upper() on one character
UpperChar(c) ==
    IF c \in LowerLetters THEN CHOOSE u \in DOMAIN LowerMap : LowerMap[u] = c ELSE c

\* str.upper()
Upper(s) == [i \in 1..Len(s) |-> UpperChar(s[i])]

\* the keys of SREC_STATES with priority HIGH
HighPriorityStates == {<<"C", "A">>, <<"T", "X">>, <<"P", "A">>, <<"M", "A">>, <<"N", "J">>, <<"F", "L">>}

\* the keys of SREC_STATES with priority MEDIUM
MediumPriorityStates == {<<"O", "H">>, <<"M", "D">>, <<"D", "C">>, <<"D", "E">>,
                         <<"N", "H">>, <<"R", "I">>, <<"C", "T">>, <<"I", "L">>}

\* the keys of SREC_STATES
SRECStates == HighPriorityStates \cup MediumPriorityStates

IsLeapYear(y) == (y % 4 = 0) /\ (y % 100 # 0 \/ y % 400 = 0)

DaysInMonth(y, m) ==
    IF m = 2 THEN (IF IsLeapYear(y) THEN 29 ELSE 28)
    ELSE IF m \in {4, 6, 9, 11} THEN 30
    ELSE 31

\* number of days before January 1st of year y
DaysBeforeYear(y) ==
    (y - 1) * 365 + ((y - 1) \div 4) - ((y - 1) \div 100) + ((y - 1) \div 400)

\* number of days of year y before the first day of month m
RECURSIVE DaysBeforeMonth(_, _)
DaysBeforeMonth(y, m) ==
    IF m = 1 THEN 0 ELSE DaysBeforeMonth(y, m - 1) + DaysInMonth(y, m - 1)

\* date.toordinal()
ToOrdinal(d) == DaysBeforeYear(d.year) + DaysBeforeMonth(d.year, d.month) + d.day

\* (deadline - ref_date).days
DaysUntil(deadline, ref_date) == ToOrdinal(deadline) - ToOrdinal(ref_date)

ITC_RESIDENTIAL_DEADLINE == [year |-> 2025, month |-> 12, day |-> 31]

ITC_COMMERCIAL_SAFE_HARBOR == [year |-> 2026, month |-> 6, day |-> 30]

\* longest distance in days to the commercial safe-harbor deadline that is
\* CRITICAL
CommercialWindowDays == 365

\* longest distance in days to the residential deadline that is HIGH
ResidentialWindowDays == 180

\* SRECITCFilter.is_srec_state
is_srec_state(state_code) == Upper(state_code) \in SRECStates

\* SRECITCFilter.get_srec_priority, for a state of SREC_STATES
get_srec_priority(state_code) ==
    IF Upper(state_code) \in HighPriorityStates THEN "HIGH" ELSE "MEDIUM"

\* variant: the residential window as long as the commercial one
calculate_itc_urgency_YearWindow(state_code, is_commercial, ref_date) ==
    LET is_srec == is_srec_state(state_code)
        days_to_commercial == DaysUntil(ITC_COMMERCIAL_SAFE_HARBOR, ref_date)
        days_to_residential == DaysUntil(ITC_RESIDENTIAL_DEADLINE, ref_date)
    IN  IF is_commercial /\ days_to_commercial <= CommercialWindowDays /\ days_to_commercial > 0
        THEN "CRITICAL"
        ELSE IF ~is_commercial /\ days_to_residential <= CommercialWindowDays
                               /\ days_to_residential > 0
        THEN "HIGH"
        ELSE IF is_srec THEN "MEDIUM"
        ELSE "LOW"

\* SRECITCFilter.calculate_itc_urgency(state_code, is_commercial, reference_date)
calculate_itc_urgency(state_code, is_commercial, ref_date) ==
    LET is_srec == is_srec_state(state_code)
        days_to_commercial == DaysUntil(ITC_COMMERCIAL_SAFE_HARBOR, ref_date)
        days_to_residential == DaysUntil(ITC_RESIDENTIAL_DEADLINE, ref_date)
    IN  IF is_commercial /\ days_to_commercial <= CommercialWindowDays /\ days_to_commercial > 0
        THEN "CRITICAL"
        ELSE IF ~is_commercial /\ days_to_residential <= ResidentialWindowDays
                               /\ days_to_residential > 0
        THEN "HIGH"
        ELSE IF is_srec THEN "MEDIUM"
        ELSE "LOW"

\* a contractor object without the attribute srec_metadata
NoMetadata == [present |-> FALSE]

\* what filter_contractors does to one contractor without srec_metadata, on
\* the day `today` (min_priority None, include_enrichment True): a
\* contractor outside the SREC states is skipped, the others get the
\* attribute srec_metadata
srec_metadata_after_filter(state_code, is_commercial, today) ==
    IF ~is_srec_state(state_code) THEN NoMetadata
    ELSE [present |-> TRUE,
          priority |-> get_srec_priority(state_code),
          urgency |-> calculate_itc_urgency(state_code, is_commercial, today)]

\* variant: CRITICAL scored like HIGH
score_itc_urgency_Flat(srec_metadata) ==
    IF ~srec_metadata.present THEN 2
    ELSE IF srec_metadata.urgency \in {"CRITICAL", "HIGH"} THEN 7
    ELSE IF srec_metadata.urgency = "MEDIUM" THEN 5
    ELSE 2

\* CoperniqLeadScorer.score_itc_urgency, the points
score_itc_urgency(srec_metadata) ==
    IF ~srec_metadata.present THEN 2
    ELSE IF srec_metadata.urgency = "CRITICAL" THEN 10
    ELSE IF srec_metadata.urgency = "HIGH" THEN 7
    ELSE IF srec_metadata.urgency = "MEDIUM" THEN 5
    ELSE 2

\* the years of the reference dates
ReferenceYears == {2025, 2026}

\* every date of those years
ReferenceDates ==
    {dt \in [year : ReferenceYears, month : 1..12, day : 1..31] :
        dt.day <= DaysInMonth(dt.year, dt.month)}

\* state codes of contractors: two SREC states of HIGH priority (one in
\* lower case), one of MEDIUM priority, one state without a program
StateCodeInputs == {<<"C", "A">>, <<"t", "x">>, <<"I", "L">>, <<"W", "Y">>}

CalculateITCUrgencyCalls ==
    {[fn |-> "calculate_itc_urgency", state_code |-> s, is_commercial |-> c,
      reference_date |-> dt] :
        s \in StateCodeInputs, c \in BOOLEAN, dt \in ReferenceDates}

\* filter_contractors([contractor]) on the day `today`, then
\* score_itc_urgency(contractor)
ScoreITCUrgencyCalls ==
    {[fn |-> "score_itc_urgency", state_code |-> s, is_commercial |-> c, today |-> dt] :
        s \in StateCodeInputs, c \in BOOLEAN, dt \in ReferenceDates}

(***************************************************************************)
(* Geographic value (CoperniqLeadScorer.score_geographic_value).  A ZIP    *)
(* code is only ever compared for equality and is kept as one string.      *)
(***************************************************************************)
\* the wealthy ZIP codes by state, in the order of the source
WEALTHY_ZIPS ==
    (<<"C", "A">> :> <<"94027", "94301", "94304", "94022", "94024", "90210", "90212", "90265",
                    "90272", "92657", "92660", "92662", "92037", "92067", "94920", "94028",
                    "94956", "93108", "92625">>) @@
    (<<"T", "X">> :> <<"77019", "77024", "77005", "77056", "75205", "75225", "75229", "78746",
                    "78733", "78730", "78734", "77007", "76107">>) @@
    (<<"P", "A">> :> <<"19035", "19003", "19087", "19085", "19301", "15215", "15238", "19010",
                    "19041", "19066">>) @@
    (<<"M", "A">> :> <<"02467", "02481", "02492", "02445", "02482", "02459", "02468", "01752",
                    "02142", "02138", "02139">>) @@
    (<<"N", "J">> :> <<"07078", "07920", "07931", "07039", "07726", "07733", "08540", "07869",
                    "07046", "07670", "07450">>) @@
    (<<"F", "L">> :> <<"33109", "33158", "33156", "33480", "33455", "34102", "34103", "33606",
                    "33629", "33139", "33004">>)

\* the length of the slice wealthy_zips_for_state[:10]
TopWealthyZips == 10

\* s[:n]
Prefix(s, n) == SubSeq(s, 1, IF n < Len(s) THEN n ELSE Len(s))

\* variant: the slice one entry short ([:9])
score_geographic_value_NineZips(state, zip_code) ==
    IF state \notin DOMAIN WEALTHY_ZIPS THEN 0
    ELSE LET wealthy_zips_for_state == WEALTHY_ZIPS[state]
         IN  IF zip_code \in Range(Prefix(wealthy_zips_for_state, TopWealthyZips - 1)) THEN 10
             ELSE IF zip_code \in Range(wealthy_zips_for_state) THEN 7
             ELSE 3

\* the points score_geographic_value returns for the state and zip of the
\* primary dealer; the city is lower-cased and then not used
score_geographic_value(state, zip_code) ==
    IF state \notin DOMAIN WEALTHY_ZIPS THEN 0
    ELSE LET wealthy_zips_for_state == WEALTHY_ZIPS[state]
         IN  IF zip_code \in Range(Prefix(wealthy_zips_for_state, TopWealthyZips)) THEN 10
             ELSE IF zip_code \in Range(wealthy_zips_for_state) THEN 7
             ELSE 3

\* states of primary dealers: the six states of the table, a lower-case
\* spelling, two states without a list, and the empty string
GeoStateInputs ==
    (DOMAIN WEALTHY_ZIPS) \cup {<<"c", "a">>, <<"O", "H">>, <<"W", "Y">>, <<>>}

\* ZIP codes of primary dealers: every ZIP of the table, two ZIPs outside
\* it, and the empty string
ZipInputs ==
    UNION {Range(WEALTHY_ZIPS[s]) : s \in DOMAIN WEALTHY_ZIPS} \cup {"10001", "44101", ""}

ScoreGeographicValueCalls ==
    {[fn |-> "score_geographic_value", state |-> s, zip |-> z] :
        s \in GeoStateInputs, z \in ZipInputs}

(***************************************************************************)
(* CoperniqLeadScorer.score_contractor.  A contractor is the MultiOEMMatch *)
(* object with the fields of its primary dealer that the filter and the    *)
(* scorer read or write.  An Optional field is None or Some(value).        *)
(***************************************************************************)
None == [is_none |-> TRUE]

Some(v) == [is_none |-> FALSE, value |-> v]

\* variant: the points of the module docstring (25 for two OEMs, 10 for one)
score_multi_oem_presence_Docstring(oem_sources) ==
    LET oem_count == Cardinality(oem_sources)
    IN  IF oem_count >= 3 THEN 40
        ELSE IF oem_count = 2 THEN 25
        ELSE IF oem_count = 1 THEN 10
        ELSE 0

\* CoperniqLeadScorer.score_multi_oem_presence, the points
score_multi_oem_presence(oem_sources) ==
    LET oem_count == Cardinality(oem_sources)
    IN  IF oem_count >= 3 THEN 40
        ELSE IF oem_count = 2 THEN 30
        ELSE IF oem_count = 1 THEN 8
        ELSE 0

\* CoperniqLeadScorer.score_srec_state, the points
score_srec_state(srec_metadata) ==
    IF ~srec_metadata.present THEN 0
    ELSE IF srec_metadata.priority = "HIGH" THEN 20
    ELSE IF srec_metadata.priority = "MEDIUM" THEN 10
    ELSE 0

\* CoperniqLeadScorer.score_commercial_capability, the points
score_commercial_capability(employee_count, tier) ==
    IF ~employee_count.is_none
    THEN IF employee_count.value >= 50 THEN 20
         ELSE IF employee_count.value >= 10 THEN 15
         ELSE IF employee_count.value >= 5 THEN 10
         ELSE 5
    ELSE IF tier \in {"Premier", "Platinum"} THEN 15
         ELSE IF tier \in {"Elite Plus", "Gold"} THEN 10
         ELSE 5

\* the CoperniqScore object score_contractor returns: the five dimensions
\* scored, the two bonuses at their default 0, and the total and the tier
\* set by calculate_total
score_contractor(c) ==
    LET score == [multi_oem_score |-> score_multi_oem_presence(c.oem_sources),
                  srec_state_score |-> score_srec_state(c.srec_metadata),
                  commercial_capability_score |->
                      score_commercial_capability(c.employee_count, c.tier),
                  geographic_score |-> score_geographic_value(c.state, c.zip),
                  itc_urgency_score |-> score_itc_urgency(c.srec_metadata),
                  om_bonus |-> 0,
                  mep_r_bonus |-> 0]
        total == calculate_total(score)
    IN  [multi_oem_score |-> score.multi_oem_score,
         srec_state_score |-> score.srec_state_score,
         commercial_capability_score |-> score.commercial_capability_score,
         geographic_score |-> score.geographic_score,
         itc_urgency_score |-> score.itc_urgency_score,
         om_bonus |-> score.om_bonus,
         mep_r_bonus |-> score.mep_r_bonus,
         total_score |-> total.total_score,
         priority_tier |-> total.priority_tier]

\* the oem_sources of groups of one, two and three OEMs
OEMSourceInputs == {{OEMOrder[i] : i \in 1..n} : n \in 1..Len(OEMOrder)}

\* employee_count and tier of primary dealers: the tier is read only when
\* there is no employee count
EmployeeTierInputs ==
    {[employee_count |-> None, tier |-> t] :
        t \in {"Premier", "Platinum", "Elite Plus", "Gold", "Standard"}}
    \cup {[employee_count |-> Some(n), tier |-> "Standard"] : n \in {0, 4, 5, 9, 10, 49, 50}}

\* the srec_metadata a contractor may carry: none, or a priority and an
\* urgency
MetadataInputs ==
    {NoMetadata} \cup {[present |-> TRUE, priority |-> p, urgency |-> u] :
                          p \in {"HIGH", "MEDIUM", "LOW"},
                          u \in {"CRITICAL", "HIGH", "MEDIUM", "LOW"}}

\* state and ZIP of primary dealers: a state with a list and a state without
\* one, the empty state; a first entry, a late entry, a ZIP outside, no ZIP
ScoredPlaces ==
    {[state |-> s, zip |-> z] :
        s \in {<<"C", "A">>, <<"W", "Y">>, <<>>},
        z \in {"94027", "92625", "10001", ""}}

\* the contractor as the detector returns it
Contractor(oem_sources, place, size, is_commercial, srec_metadata) ==
    [present |-> TRUE, oem_sources |-> oem_sources,
     state |-> place.state, zip |-> place.zip,
     employee_count |-> size.employee_count, tier |-> size.tier,
     is_commercial |-> is_commercial,
     coperniq_score |-> None, srec_state_priority |-> None, itc_urgency |-> None,
     srec_metadata |-> srec_metadata]

ScoreContractorCalls ==
    {[fn |-> "score_contractor", contractor |-> Contractor(o, p, e, FALSE, m)] :
        o \in OEMSourceInputs, p \in ScoredPlaces, e \in EmployeeTierInputs,
        m \in MetadataInputs}

NormalizePhoneCalls == {[fn |-> "normalize_phone", phone |-> p] : p \in PhoneInputs}

\* every call followed
Calls ==
    NormalizePhoneCalls \cup NormalizeDomainCalls \cup FuzzyNameMatchCalls \cup FindCalls
        \cup CalculateTotalCalls \cup CalculateITCUrgencyCalls \cup ScoreITCUrgencyCalls
        \cup ScoreGeographicValueCalls \cup ScoreContractorCalls

CallInit ==
    /\ dealers_by_oem = <<>>
    /\ multi_oem_matches = <<>>
    /\ last_find = 0
    /\ repeated = FALSE
    /\ call \in Calls
    /\ outcome = Pending
    /\ add_calls = <<>>
    /\ contractor = NoContractor
    /\ scores = <<>>

\* MultiOEMDetector.normalize_phone(phone)
NormalizePhone ==
    /\ call.fn = "normalize_phone"
    /\ ~outcome.done
    /\ outcome' = Returned(normalize_phone(call.phone))
    /\ UNCHANGED <<call, dealers_by_oem, multi_oem_matches, last_find, repeated,
                   add_calls, contractor, scores>>

\* MultiOEMDetector.normalize_domain(domain)
NormalizeDomain ==
    /\ call.fn = "normalize_domain"
    /\ ~outcome.done
    /\ outcome' = Returned(normalize_domain(call.domain))
    /\ UNCHANGED <<call, dealers_by_oem, multi_oem_matches, last_find, repeated,
                   add_calls, contractor, scores>>

\* MultiOEMDetector.fuzzy_name_match(name1, name2, threshold)
FuzzyNameMatch ==
    /\ call.fn = "fuzzy_name_match"
    /\ ~outcome.done
    /\ outcome' = Returned(fuzzy_name_match(call.name1, call.name2, call.threshold))
    /\ UNCHANGED <<call, dealers_by_oem, multi_oem_matches, last_find, repeated,
                   add_calls, contractor, scores>>

\* MultiOEMDetector.find_multi_oem_contractors(min_oem_count), its return
\* value only
FindUnchecked ==
    /\ call.fn = "find_multi_oem_contractors"
    /\ ~outcome.done
    /\ outcome' = Returned(Resolve(call.dealers_by_oem, call.min_oem_count))
    /\ UNCHANGED <<call, dealers_by_oem, multi_oem_matches, last_find, repeated,
                   add_calls, contractor, scores>>

\* CoperniqScore.calculate_total()
CalculateTotal ==
    /\ call.fn = "calculate_total"
    /\ ~outcome.done
    /\ outcome' = Returned(calculate_total(call))
    /\ UNCHANGED <<call, dealers_by_oem, multi_oem_matches, last_find, repeated,
                   add_calls, contractor, scores>>

\* SRECITCFilter.calculate_itc_urgency(state_code, is_commercial, reference_date)
CalculateITCUrgency ==
    /\ call.fn = "calculate_itc_urgency"
    /\ ~outcome.done
    /\ outcome' = Returned(calculate_itc_urgency(call.state_code, call.is_commercial,
                                                 call.reference_date))
    /\ UNCHANGED <<call, dealers_by_oem, multi_oem_matches, last_find, repeated,
                   add_calls, contractor, scores>>

\* SRECITCFilter.filter_contractors on one contractor followed by
\* CoperniqLeadScorer.score_itc_urgency on that contractor
ScoreITCUrgency ==
    /\ call.fn = "score_itc_urgency"
    /\ ~outcome.done
    /\ LET srec_metadata == srec_metadata_after_filter(call.state_code, call.is_commercial,
                                                       call.today)
       IN  outcome' = Returned([srec_metadata |-> srec_metadata,
                                points |-> score_itc_urgency(srec_metadata)])
    /\ UNCHANGED <<call, dealers_by_oem, multi_oem_matches, last_find, repeated,
                   add_calls, contractor, scores>>

\* CoperniqLeadScorer.score_geographic_value(contractor), the points of the
\* returned pair
ScoreGeographicValue ==
    /\ call.fn = "score_geographic_value"
    /\ ~outcome.done
    /\ outcome' = Returned(score_geographic_value(call.state, call.zip))
    /\ UNCHANGED <<call, dealers_by_oem, multi_oem_matches, last_find, repeated,
                   add_calls, contractor, scores>>

\* CoperniqLeadScorer.score_contractor(contractor)
ScoreContractor ==
    /\ call.fn = "score_contractor"
    /\ ~outcome.done
    /\ outcome' = Returned(score_contractor(call.contractor))
    /\ UNCHANGED <<call, dealers_by_oem, multi_oem_matches, last_find, repeated,
                   add_calls, contractor, scores>>

CallNext ==
    \/ NormalizePhone
    \/ NormalizeDomain
    \/ FuzzyNameMatch
    \/ FindUnchecked
    \/ CalculateTotal
    \/ CalculateITCUrgency
    \/ ScoreITCUrgency
    \/ ScoreGeographicValue
    \/ ScoreContractor

CallSpec == CallInit /\ [][CallNext]_vars

\* the digits of a string, in order
DigitsIn(s) ==
    LET IsDigit(c) == c \in Digits
    IN  SelectSeq(s, IsDigit)

\* the ten-digit national numbers among the digit strings
NationalNumbers == {d \in DigitStrings : Len(d) = 10}

\* C14: normalize_phone returns the digits of its input in order, the first
\* one dropped exactly when there are 11 digits and the first is 1; so every
\* way of writing a ten-digit number, with or without the country code 1,
\* gives that ten-digit string, and normalizing the result again changes
\* nothing.
C14_NormalizePhone ==
    (call.fn = "normalize_phone" /\ outcome.done) =>
        LET digits == DigitsIn(call.phone)
            strip == Len(digits) = 11 /\ digits[1] = "1"
        IN  /\ outcome.value = IF strip THEN Tail(digits) ELSE digits
            /\ \A d \in NationalNumbers, lead \in PhoneLeads, sep \in PhoneSeparators :
                   call.phone \in {FormatPhone(lead, sep, d),
                                   FormatPhone(lead, sep, <<"1">> \o d)}
                       => outcome.value = d
            /\ call.phone \in ExamplePhones =>
                   outcome.value \in {LocalDigits, [i \in 1..10 |-> "5"]}
            /\ normalize_phone(outcome.value) = outcome.value

\* "+1 (555) 123-4567" was normalized, also a number written with the
\* country code, and an 11-digit number that does not start with 1
C14_Witness ==
    /\ call.fn = "normalize_phone"
    /\ outcome.done
    /\ \/ call.phone = FormatPhone(<<"+">>, <<" ">>, <<"1">> \o LocalDigits)
          /\ outcome.value = LocalDigits
       \/ call.phone = FormatPhone(<<>>, <<"-">>, <<"5">> \o LocalDigits)
          /\ Len(outcome.value) = 11

\* the root domain as C15 describes it: lowercase, the "www." prefix
\* removed, the last three labels kept when the second-to-last one is co,
\* com, org or net and the last two otherwise
C15_RootDomain(domain) ==
    LET www == <<"w", "w", "w", ".">>
        lowered == Lower(domain)
        d == IF StartsWith(lowered, www) THEN Drop(lowered, Len(www)) ELSE lowered
        parts == SplitChar(d, ".")
        n == Len(parts)
    IN  IF n >= 3 /\ parts[n - 1] \in {<<"c", "o">>, <<"c", "o", "m">>, <<"o", "r", "g">>, <<"n", "e", "t">>}
        THEN Join(LastN(parts, 3), <<".">>)
        ELSE Join(LastN(parts, 2), <<".">>)

\* C15: normalize_domain lowercases the domain, removes the "www." prefix
\* and nothing else, then keeps the last three dot-separated labels when the
\* second-to-last label is one of co, com, org, net and the last two labels
\* otherwise.
C15_NormalizeDomain ==
    (call.fn = "normalize_domain" /\ outcome.done) =>
        outcome.value = C15_RootDomain(call.domain)

\* names and what C16 says they normalize to: lowercase, punctuation
\* removed, legal suffixes removed as whole words, whitespace collapsed
C16_NormalizedExamples == {<<<<"A", "b", "c", " ", "E", "l", "e", "c", "t", "r", "i", "c", ",", " ", "I", "n", "c", ".">>,
      <<"a", "b", "c", " ", "e", "l", "e", "c", "t", "r", "i", "c">>>>,
    <<<<"A", ".", "B", ".", "C", ".", " ", "E", "l", "e", "c", "t", "r", "i", "c", " ", "C", "o">>,
      <<"a", "b", "c", " ", "e", "l", "e", "c", "t", "r", "i", "c">>>>,
    <<<<"S", "o", "l", "a", "r", " ", " ", "Z", "e", "d", "\t", "C", "o", "r", "p">>,
      <<"s", "o", "l", "a", "r", " ", "z", "e", "d">>>>,
    <<<<"A", "B", "C", " ", "E", "l", "e", "c", "t", "r", "i", "c", " ", "L", "L", "C">>,
      <<"a", "b", "c", " ", "e", "l", "e", "c", "t", "r", "i", "c">>>>,
    <<<<"L", "L", "C">>,
      <<>>>>,
    <<<<"E", "l", "e", "c", "t", "r", "i", "c", " ", "A", "B", "C">>,
      <<"e", "l", "e", "c", "t", "r", "i", "c", " ", "a", "b", "c">>>>}

\* the whitespace-separated tokens of a normalized name
C16_Tokens(norm) == Range(SplitSpace(norm))

InvalidConfiguration ==
    \/ /\ call.fn = "find_multi_oem_contractors"
       /\ call.min_oem_count < 1
    \/ /\ call.fn = "fuzzy_name_match"
       /\ ~(0 < call.threshold /\ call.threshold <= 100)

\* C11: find_multi_oem_contractors called with min_oem_count < 1, and
\* fuzzy_name_match called with a threshold outside (0, 1], raise an error
\* instead of returning a result.
C11_InvalidConfigurationRaises ==
    (outcome.done /\ InvalidConfiguration) => outcome.raised

\* C17: for every resolved group get_best_contact_info returns as phone a
\* longest phone string among the group's records, as domain a shortest
\* non-empty domain among them (empty only if no record has a domain), and
\* as website the website of the record that supplied that domain.
C17_BestContactInfo ==
    Resolved =>
        \A g \in Groups :
            LET records == multi_oem_matches[g].dealer_records
                dealers == {Dealers[records[i].dealer] : i \in 1..Len(records)}
                best == get_best_contact_info(records)
            IN  /\ \E d \in dealers : d.phone = best.phone
                /\ \A d \in dealers : Len(d.phone) <= Len(best.phone)
                /\ best.domain = <<>> <=> \A d \in dealers : d.domain = <<>>
                /\ best.domain # <<>> =>
                       /\ \E d \in dealers : d.domain = best.domain /\ d.website = best.website
                       /\ \A d \in dealers :
                              d.domain # <<>> => Len(best.domain) <= Len(d.domain)
                /\ best.domain = <<>> => best.website = <<>>

\* a group whose best phone and best domain are not those of its first
\* record, although the first record has both
C17_Witness ==
    /\ Resolved
    /\ \E g \in Groups :
           LET records == multi_oem_matches[g].dealer_records
               first == Dealers[records[1].dealer]
               best == get_best_contact_info(records)
           IN  /\ first.phone # <<>>
               /\ first.domain # <<>>
               /\ best.phone # first.phone
               /\ best.domain # first.domain

\* the cut-offs of the priority tiers
C18_Thresholds == {50, 70, 90}

CallDate == IF call.fn = "calculate_itc_urgency" THEN call.reference_date ELSE call.today

\* a call about a contractor flagged commercial, on a date between 1 and 365
\* days before the commercial safe-harbor deadline, has returned
C19_Scenario ==
    /\ call.fn \in {"calculate_itc_urgency", "score_itc_urgency"}
    /\ outcome.done
    /\ call.is_commercial
    /\ DaysUntil(ITC_COMMERCIAL_SAFE_HARBOR, CallDate) \in 1..365

C20_Scenario ==
    /\ call.fn = "calculate_itc_urgency"
    /\ outcome.done
    /\ ~call.is_commercial

\* C20 as stated: for a non-commercial contractor and a reference date
\* exactly 300 days before the residential ITC deadline,
\* calculate_itc_urgency returns HIGH, whatever the state.
C20_ResidentialHigh ==
    (C20_Scenario /\ DaysUntil(ITC_RESIDENTIAL_DEADLINE, call.reference_date) = 300) =>
        outcome.value = "HIGH"

\* C20 (amended): for a non-commercial contractor calculate_itc_urgency
\* returns HIGH exactly when the reference date is between 1 and 180 days
\* before the residential ITC deadline, whatever the state; 300 days before
\* it the result is MEDIUM for a SREC state and LOW for any other state,
\* and it is never CRITICAL.
C20_ResidentialHighAmended ==
    C20_Scenario =>
        LET days == DaysUntil(ITC_RESIDENTIAL_DEADLINE, call.reference_date)
        IN  /\ outcome.value = "HIGH" <=> days \in 1..180
            /\ outcome.value # "CRITICAL"
            /\ days = 300 =>
                   outcome.value = IF Upper(call.state_code) \in SRECStates
                                   THEN "MEDIUM" ELSE "LOW"

\* the urgency of a non-commercial contractor of a SREC state was computed
\* exactly 300 days before the residential deadline
C20_Witness ==
    /\ C20_Scenario
    /\ DaysUntil(ITC_RESIDENTIAL_DEADLINE, call.reference_date) = 300
    /\ outcome.value = "MEDIUM"

\* the position of a ZIP code in the list of a state, 0 when it is not in it
C21_Position(state, zip_code) ==
    IF \E i \in 1..Len(WEALTHY_ZIPS[state]) : WEALTHY_ZIPS[state][i] = zip_code
    THEN CHOOSE i \in 1..Len(WEALTHY_ZIPS[state]) : WEALTHY_ZIPS[state][i] = zip_code
    ELSE 0

\* C21 (as stated): for a contractor with a non-empty state and a non-empty
\* ZIP the geographic score is never zero: 10 for a ZIP among the first ten
\* of the state's list, 7 for a ZIP elsewhere in the list, a small positive
\* baseline for every other contractor.
C21_NeverZero ==
    (call.fn = "score_geographic_value" /\ outcome.done
        /\ call.state # <<>> /\ call.zip # "")
        => /\ ~outcome.raised
           /\ outcome.value > 0

\* C21 (amended): for a contractor with a non-empty ZIP whose state is,
\* letter for letter, one of the six states of the wealthy-ZIP table, the
\* geographic score is 10 when the ZIP is among the first ten entries of the
\* state's list, 7 when it is elsewhere in the list and 3 when it is not in
\* the list; for any other state the score is 0 whatever the ZIP.
C21_NeverZeroAmended ==
    (call.fn = "score_geographic_value" /\ outcome.done /\ call.zip # "")
        => /\ ~outcome.raised
           /\ IF call.state \in {<<"C", "A">>, <<"T", "X">>, <<"P", "A">>,
                                 <<"M", "A">>, <<"N", "J">>, <<"F", "L">>}
              THEN LET pos == C21_Position(call.state, call.zip)
                   IN  /\ (pos \in 1..10) => outcome.value = 10
                       /\ (pos > 10) => outcome.value = 7
                       /\ (pos = 0) => outcome.value = 3
              ELSE outcome.value = 0

\* a tenth entry of a list with more than ten entries has been scored
C21_Witness ==
    /\ call.fn = "score_geographic_value"
    /\ outcome.done
    /\ call.state = <<"T", "X">>
    /\ call.zip = "78730"
    /\ outcome.value = 10

\* C22: a contractor whose primary record has an empty state or an empty ZIP
\* gets geographic score 0, and scoring it raises no error.
C22_MissingStateOrZipScoresZero ==
    (call.fn = "score_geographic_value" /\ outcome.done
        /\ (call.state = <<>> \/ call.zip = ""))
        => /\ ~outcome.raised
           /\ outcome.value = 0

\* C29: whenever every dimension field of a CoperniqScore lies in its
\* documented range (multi_oem 0-40, srec_state 0-20, commercial_capability
\* 0-20, geographic 0-10, itc_urgency 0-10, om_bonus 0-20, mep_r_bonus 0-25),
\* calculate_total returns a total_score between 0 and 105.
C29_TotalAtMost105 ==
    (/\ call.fn = "calculate_total"
     /\ outcome.done
     /\ call.multi_oem_score \in 0..40
     /\ call.srec_state_score \in 0..20
     /\ call.commercial_capability_score \in 0..20
     /\ call.geographic_score \in 0..10
     /\ call.itc_urgency_score \in 0..10
     /\ call.om_bonus \in 0..20
     /\ call.mep_r_bonus \in 0..25)
        => /\ ~outcome.raised
           /\ outcome.value.total_score \in 0..105

\* the add_dealers calls made under one label, in order
C27_CallsUnder(oem_name) ==
    LET Named(c) == c.oem = oem_name
    IN  SelectSeq(add_calls, Named)

\* the labels named by the calls, in the order of their first call, each with
\* the batch of its last call
C27_LastBatches ==
    LET IsFirst(i) == \A j \in 1..(i - 1) : add_calls[j].oem # add_calls[i].oem
        firsts == SelectSeq(Positions(add_calls), IsFirst)
    IN  [k \in 1..Len(firsts) |->
            LET under == C27_CallsUnder(add_calls[firsts[k]].oem)
            IN  [oem |-> add_calls[firsts[k]].oem, dealers |-> under[Len(under)].dealers]]

\* C27: add_dealers keeps one batch per OEM label and the last call wins:
\* after any sequence of add_dealers calls a following
\* find_multi_oem_contractors considers, for each label, exactly the records
\* of the most recent batch registered under that label, and batches under
\* other labels are left unchanged.
C27_LastCallWins ==
    /\ \A oem_name \in OEMs :
           LET OfLabel(e) == e.oem = oem_name
               considered == SelectSeq(AllEntries(dealers_by_oem), OfLabel)
               under == C27_CallsUnder(oem_name)
           IN  IF under = <<>> THEN considered = <<>>
               ELSE /\ Len(considered) = Len(under[Len(under)].dealers)
                    /\ \A i \in 1..Len(considered) :
                           considered[i].dealer = under[Len(under)].dealers[i]
    /\ Resolved => multi_oem_matches = Resolve(C27_LastBatches, last_find)

\* a label registered twice with two different batches, another label
\* registered in between, and a group found across the two labels
C27_Witness ==
    /\ Resolved
    /\ Len(add_calls) = 3
    /\ add_calls[1].oem = add_calls[3].oem
    /\ add_calls[1].oem # add_calls[2].oem
    /\ add_calls[1].dealers # add_calls[3].dealers
    /\ add_calls[1].dealers # <<>>
    /\ \E g \in Groups : Cardinality(multi_oem_matches[g].oem_sources) = 2

MaxScores == 2

\* the contractors the detector hands over: no srec_metadata yet
PipelinePlaces ==
    {[state |-> <<"C", "A">>, zip |-> "94027"], [state |-> <<"t", "x">>, zip |-> "78746"],
     [state |-> <<"I", "L">>, zip |-> ""], [state |-> <<"W", "Y">>, zip |-> "10001"]}

PipelineSizes ==
    {[employee_count |-> None, tier |-> "Standard"], [employee_count |-> Some(50), tier |-> "Standard"]}

PipelineContractors ==
    {Contractor(o, p, e, c, NoMetadata) :
        o \in {{OEMOrder[1]}, {OEMOrder[1], OEMOrder[2]}}, p \in PipelinePlaces,
        e \in PipelineSizes, c \in BOOLEAN}

\* self.today of the filter of a pass: before both windows, inside both,
\* after the residential deadline, after both deadlines
PassDates ==
    {[year |-> 2025, month |-> 6, day |-> 1], [year |-> 2025, month |-> 10, day |-> 1],
     [year |-> 2026, month |-> 1, day |-> 15], [year |-> 2026, month |-> 7, day |-> 15]}

\* the min_priority argument of filter_contractors
MinPriorities == {None, Some("HIGH"), Some("MEDIUM"), Some("LOW")}

PipelineInit ==
    /\ dealers_by_oem = <<>>
    /\ multi_oem_matches = <<>>
    /\ last_find = 0
    /\ repeated = FALSE
    /\ call = NoCall
    /\ outcome = Pending
    /\ add_calls = <<>>
    /\ contractor \in PipelineContractors
    /\ scores = <<>>

\* the body of the loop of filter_contractors for the contractor c
filter_contractor(c, today, min_priority, include_enrichment) ==
    IF ~is_srec_state(c.state) THEN c
    ELSE LET priority == get_srec_priority(c.state)
         IN  IF /\ ~min_priority.is_none
                /\ priority # min_priority.value
                /\ min_priority.value = "HIGH"
                /\ priority # "HIGH"
             THEN c
             ELSE IF ~include_enrichment THEN c
             ELSE LET urgency == calculate_itc_urgency(c.state, c.is_commercial, today)
                  IN  [c EXCEPT !.srec_state_priority = Some(priority),
                                !.itc_urgency = Some(urgency),
                                !.srec_metadata =
                                    IF @.present THEN @
                                    ELSE [present |-> TRUE, priority |-> priority,
                                          urgency |-> urgency]]

\* filter_contractors([contractor], min_priority, include_enrichment) on a
\* filter whose self.today is `today`
FilterPass(today, min_priority, include_enrichment) ==
    /\ contractor.present
    /\ contractor' = filter_contractor(contractor, today, min_priority, include_enrichment)
    /\ UNCHANGED <<dealers_by_oem, multi_oem_matches, last_find, repeated, call, outcome,
                   add_calls, scores>>

\* the commercial capability of the primary dealer is set by a later
\* enrichment
CapabilitiesUpdate(is_commercial) ==
    /\ contractor.present
    /\ contractor.is_commercial # is_commercial
    /\ contractor' = [contractor EXCEPT !.is_commercial = is_commercial]
    /\ UNCHANGED <<dealers_by_oem, multi_oem_matches, last_find, repeated, call, outcome,
                   add_calls, scores>>

\* variant: the total is written back to primary_dealer.coperniq_score
ScoringPass_WritesBack ==
    /\ contractor.present
    /\ Len(scores) < MaxScores
    /\ scores' = Append(scores, score_contractor(contractor))
    /\ contractor' = [contractor EXCEPT
                         !.coperniq_score = Some(score_contractor(contractor).total_score)]
    /\ UNCHANGED <<dealers_by_oem, multi_oem_matches, last_find, repeated, call, outcome,
                   add_calls>>

\* score_contractor(contractor): one more CoperniqScore
ScoringPass ==
    /\ contractor.present
    /\ Len(scores) < MaxScores
    /\ scores' = Append(scores, score_contractor(contractor))
    /\ UNCHANGED <<dealers_by_oem, multi_oem_matches, last_find, repeated, call, outcome,
                   add_calls, contractor>>

PipelineNext ==
    \/ \E today \in PassDates, min_priority \in MinPriorities, include_enrichment \in BOOLEAN :
           FilterPass(today, min_priority, include_enrichment)
    \/ \E is_commercial \in BOOLEAN : CapabilitiesUpdate(is_commercial)
    \/ ScoringPass

PipelineSpec == PipelineInit /\ [][PipelineNext]_vars

\* a filter_contractors pass over the contractor
C23_FilterStep ==
    \E today \in PassDates, min_priority \in MinPriorities, include_enrichment \in BOOLEAN :
        FilterPass(today, min_priority, include_enrichment)

C23_EnrichmentFields == {"srec_state_priority", "itc_urgency", "srec_metadata"}

C28_MetadataUrgencyCurrent ==
    (contractor.present /\ contractor.srec_metadata.present)
        => contractor.itc_urgency = Some(contractor.srec_metadata.urgency)

=============================================================================
